---- MODULE Spec2Model ----
(***************************************************************************)
(* AnomRadar: the file cache (anomradar/core/cache.py), the scanners'      *)
(* cache-first scan and their result builders (anomradar/scanners/*.py),   *)
(* the CLI scan run (anomradar/cli.py) and the TUI scan run                *)
(* (anomradar/tui/app.py), as a state machine.                             *)
(*                                                                         *)
(* Strings are sequences of tokens, so that prefix tests, concatenation    *)
(* and splitting are computed as the code computes them.                   *)
(***************************************************************************)
EXTENDS Integers, Sequences, FiniteSets, TLC

VARIABLES
    files,      \* the cache directory: file name -> file content
    now,        \* time.time()
    cache,      \* the Cache object: [made, ttl, enabled]
    last,       \* the last Cache call and what it returned
    config,     \* get_config().cache: [ttl, enabled]
    run,        \* the CLI scan invocation: [pc, target, requested, selected, no_cache, idx]
    task,       \* the scanner coroutine being awaited: [pc, scanner, key]
    results,    \* cli.scan's results dict: scanner name -> result
    executed,   \* scanners whose network operation ran in this invocation
    served,     \* scanners of this invocation answered from the cache
    raisedIn,   \* scanners whose scan() raised in this invocation
    cache_keys, \* the cache_key each scanner of this invocation computed
    report,     \* scan_data handed to the exporter
    prevFailed, \* cache keys whose probe ended partial or failed in the
                \* invocation before, with the cache in use
    built,      \* the last call of a result builder of BaseScanner:
                \* [fn, error, data, result]
    procs       \* processes that use one cache directory at the same time:
                \* process -> the Cache call it is in and the step it is at

vars == <<files, now, cache, last, config, run, task, results, executed, served,
          raisedIn, cache_keys, report, prevFailed, built, procs>>

scanVars == <<run, task, results, executed, served, raisedIn, cache_keys, report, prevFailed>>

-----------------------------------------------------------------------------
(* Bounds *)

MaxTime == 2
MaxTTL == 1

-----------------------------------------------------------------------------
(* Python values and their JSON text *)

EmptyStr == <<>>

\* a Python value: its type, the type of its dict keys, its content, and for
\* a scan result dict its "status" and "error" entries
PyVal(ty, keyty, body, status, error) ==
    [ty |-> ty, keys |-> keyty, body |-> body, status |-> status, error |-> error]

None == PyVal("NoneType", "", "", "", "")

\* a dict as a function from its keys; the dict without keys
EmptyDict == <<>>

\* an optional dict argument: None (the default) or a dict
NoDict == [ty |-> "NoneType", val |-> EmptyDict]

PyDict(d) == [ty |-> "dict", val |-> d]

\* `x or {}`, were it to give {} whatever x is
or_empty_always(x) == EmptyDict

\* `x or {}`: None and the empty dict are falsy
or_empty(x) ==
    IF x.ty = "NoneType" \/ DOMAIN x.val = {} THEN EmptyDict ELSE x.val

\* an exception: type(error).__name__ and str(error)
Error(type, msg) == [type |-> type, msg |-> msg]

\* Signal(severity, message, details).to_dict()
Signal(severity, message, details) ==
    [severity |-> severity, message |-> message, details |-> or_empty(details)]

\* a result dict as a Python value; status and error repeat its "status"
\* entry and its "error" entry ("" when it has no such key)
ResultVal(d) ==
    PyVal("dict", "str", d, d.status, IF "error" \in DOMAIN d THEN d.error ELSE "")

\* BaseScanner.create_result: four keys, no "error" key
create_result(status, signals, summary, details) ==
    ResultVal([status |-> status, signals |-> signals, summary |-> summary,
               details |-> or_empty(details)])

\* create_degraded_result, were it to leave the "error" key out
create_degraded_result_no_error(error, partial_data) ==
    ResultVal([status |-> "partial",
               signals |-> << Signal("info", <<"Scan completed with errors: ", error.msg>>,
                                     PyDict([error_type |-> error.type])) >>,
               summary |-> <<"Partial scan completed (error: ", error.type, ")">>,
               details |-> or_empty(partial_data)])

\* BaseScanner.create_degraded_result: status partial, one info signal, the
\* partial data as details, "error" = str(error)
create_degraded_result(error, partial_data) ==
    ResultVal([status |-> "partial",
               signals |-> << Signal("info", <<"Scan completed with errors: ", error.msg>>,
                                     PyDict([error_type |-> error.type])) >>,
               summary |-> <<"Partial scan completed (error: ", error.type, ")">>,
               details |-> or_empty(partial_data),
               error |-> error.msg])

\* create_failed_result, were it to leave the "summary" key out
create_failed_result_no_summary(error) ==
    ResultVal([status |-> "failed",
               signals |-> << Signal("info", <<"Scan failed: ", error.msg>>,
                                     PyDict([error_type |-> error.type])) >>,
               details |-> EmptyDict,
               error |-> error.msg])

\* BaseScanner.create_failed_result: status failed, one info signal, empty
\* details, "error" = str(error)
create_failed_result(error) ==
    ResultVal([status |-> "failed",
               signals |-> << Signal("info", <<"Scan failed: ", error.msg>>,
                                     PyDict([error_type |-> error.type])) >>,
               summary |-> <<"Scan failed: ", error.type>>,
               details |-> EmptyDict,
               error |-> error.msg])

\* no result builder was called yet
NoBuilt == [fn |-> "", error |-> Error("", ""), data |-> NoDict, result |-> None]

\* the values handed to Cache.set directly (cli.self_check, callers of the API)
ApiValues ==
    { PyVal("str", "", "test_value", "", ""),
      PyVal("list", "", "1,2", "", ""),
      PyVal("tuple", "", "1,2", "", ""),
      PyVal("dict", "str", "1:a", "", ""),
      PyVal("dict", "int", "1:a", "", ""),
      PyVal("set", "", "1,2", "", "") }

\* json.dump's default encoder knows these types only; anything else
\* raises TypeError
JsonSerializable(v) ==
    v.ty \in {"NoneType", "str", "int", "list", "tuple", "dict"}

\* the JSON text json.dump writes for v: list and tuple both become an
\* array, dict keys become strings
json_dump(v) ==
    [jty |-> CASE v.ty = "NoneType" -> "null"
               [] v.ty = "str" -> "string"
               [] v.ty = "int" -> "number"
               [] v.ty \in {"list", "tuple"} -> "array"
               [] OTHER -> "object",
     body |-> v.body, status |-> v.status, error |-> v.error]

\* json.load, were it to build a tuple from a JSON array
json_load_tuple(j) ==
    PyVal(CASE j.jty = "null" -> "NoneType"
            [] j.jty = "string" -> "str"
            [] j.jty = "number" -> "int"
            [] j.jty = "array" -> "tuple"
            [] OTHER -> "dict",
          IF j.jty = "object" THEN "str" ELSE "",
          j.body, j.status, j.error)

\* the Python value json.load builds from a JSON text
json_load(j) ==
    PyVal(CASE j.jty = "null" -> "NoneType"
            [] j.jty = "string" -> "str"
            [] j.jty = "number" -> "int"
            [] j.jty = "array" -> "list"
            [] OTHER -> "dict",
          IF j.jty = "object" THEN "str" ELSE "",
          j.body, j.status, j.error)

-----------------------------------------------------------------------------
(* Cache files *)

\* a complete file written by Cache.set: {"key", "value", "timestamp"}
Record(value, timestamp) ==
    [kind |-> "record", value |-> json_dump(value), timestamp |-> timestamp]

\* what json.dump leaves behind when it stops midway: '{ "key": ..., "value": '
Truncated ==
    [kind |-> "truncated", value |-> json_dump(None), timestamp |-> 0]

\* _get_cache_path, were every key to get the same file
get_cache_path_one_file(key) == <<"cache.json">>

\* hashlib.sha256(key.encode()).hexdigest() + ".json"; the digest is
\* modelled as collision-free
get_cache_path(key) == <<"sha256(">> \o key \o <<").json">>

\* json.load(f) succeeds and data["timestamp"] exists
Readable(content) == content.kind = "record"

\* the expiry test, were it written with >=
Expired_atTTL(content, t, ttl) == t - content.timestamp >= ttl

\* time.time() - data["timestamp"] > self.ttl
Expired(content, t, ttl) == t - content.timestamp > ttl

Remove(fs, path) == [p \in (DOMAIN fs) \ {path} |-> fs[p]]

\* writing a file, were it to leave no other file in the directory
Write_alone(fs, path, content) == [p \in {path} |-> content]

Write(fs, path, content) ==
    [p \in (DOMAIN fs) \cup {path} |-> IF p = path THEN content ELSE fs[p]]

\* no file under a path
NoFile == [kind |-> "absent", value |-> json_dump(None), timestamp |-> 0]

\* the content of the file of a key, NoFile when there is none
FileOf(fs, key) ==
    IF get_cache_path(key) \in DOMAIN fs THEN fs[get_cache_path(key)] ELSE NoFile

\* the last Cache call: its arguments, what it returned (ret: get; ok: set,
\* delete; count: clear, cleanup_expired), whether it raised, the time of the
\* call, and the key's file and the number of files as the call found them
Call(op, key, arg, ret, ok, count, raised) ==
    [op |-> op, key |-> key, arg |-> arg, ret |-> ret, ok |-> ok,
     count |-> count, raised |-> raised,
     at |-> now, pre |-> FileOf(files, key), nfiles |-> Cardinality(DOMAIN files)]

NoCall ==
    [op |-> "", key |-> EmptyStr, arg |-> None, ret |-> None, ok |-> FALSE,
     count |-> 0, raised |-> FALSE, at |-> 0, pre |-> NoFile, nfiles |-> 0]

\* the keys used through the Cache API directly
ApiKeys == { <<"test_key">>, <<"other_key">> }

TTLs == 1..MaxTTL

-----------------------------------------------------------------------------
(* Cache: each method as its return value and its effect on the directory. *)
(* io is what the storage does during the call: "ok", or the step that     *)
(* fails with an OSError.                                                   *)

\* Cache.get, were it to read the directory whether enabled or not
get_ret_reads_when_disabled(fs, c, key, t, io) ==
    LET path == get_cache_path(key) IN
    IF path \notin DOMAIN fs THEN None
    ELSE IF io = "read_error" THEN None
    ELSE IF ~Readable(fs[path]) THEN None
    ELSE IF Expired(fs[path], t, c.ttl) THEN None
    ELSE json_load(fs[path].value)

\* Cache.get: the value returned
get_ret(fs, c, key, t, io) ==
    LET path == get_cache_path(key) IN
    IF ~c.enabled THEN None
    ELSE IF path \notin DOMAIN fs THEN None
    ELSE IF io = "read_error" THEN None
    ELSE IF ~Readable(fs[path]) THEN None
    ELSE IF Expired(fs[path], t, c.ttl) THEN None
    ELSE json_load(fs[path].value)

\* Cache.get, were it to leave the expired file in place
get_files_keep(fs, c, key, t, io) == fs

\* Cache.get: the directory afterwards (an expired file is unlinked; a file
\* that cannot be read or parsed is left where it is)
get_files(fs, c, key, t, io) ==
    LET path == get_cache_path(key) IN
    IF ~c.enabled THEN fs
    ELSE IF path \notin DOMAIN fs THEN fs
    ELSE IF io = "read_error" THEN fs
    ELSE IF ~Readable(fs[path]) THEN fs
    ELSE IF Expired(fs[path], t, c.ttl)
         THEN IF io = "unlink_error" THEN fs ELSE Remove(fs, path)
    ELSE fs

\* Cache.set: True / False
set_ret(fs, c, key, value, t, io) ==
    c.enabled /\ io = "ok" /\ JsonSerializable(value)

\* Cache.set, were it to return before the file is written
set_files_deferred(fs, c, key, value, t, io) == fs

\* Cache.set: the directory afterwards. open(path, "w") truncates the file
\* before json.dump runs, so a dump that stops midway leaves a truncated file
set_files(fs, c, key, value, t, io) ==
    LET path == get_cache_path(key) IN
    IF ~c.enabled THEN fs
    ELSE IF io = "open_error" THEN fs
    ELSE IF io = "write_error" \/ ~JsonSerializable(value)
         THEN Write(fs, path, Truncated)
    ELSE Write(fs, path, Record(value, t))

\* Cache.delete: True / False
delete_ret(fs, c, key, io) ==
    c.enabled /\ get_cache_path(key) \in DOMAIN fs /\ io = "ok"

delete_files(fs, c, key, io) ==
    IF delete_ret(fs, c, key, io) THEN Remove(fs, get_cache_path(key)) ELSE fs

\* cleanup_expired, were it to skip the files it cannot read
Stale_expired_only(fs, c, t) ==
    { p \in DOMAIN fs : Readable(fs[p]) /\ Expired(fs[p], t, c.ttl) }

\* the files cleanup_expired unlinks: expired ones and unreadable ones
Stale(fs, c, t) ==
    { p \in DOMAIN fs : ~Readable(fs[p]) \/ Expired(fs[p], t, c.ttl) }

-----------------------------------------------------------------------------
(* Initial state: no Cache object yet, an empty cache directory *)

NoTask == [pc |-> "none", scanner |-> "", key |-> EmptyStr]

\* the processes that share the cache directory
Procs == {"p1", "p2"}

\* a process outside any Cache call
IdleProc ==
    [pc |-> "idle", op |-> "", key |-> EmptyStr, value |-> None, ts |-> 0,
     detached |-> FALSE, overlap |-> FALSE, todo |-> {}, cur |-> EmptyStr,
     ok |-> FALSE, ret |-> None, count |-> 0]

NoRun == [pc |-> "idle", target |-> EmptyStr, requested |-> <<>>,
          selected |-> <<>>, no_cache |-> FALSE, idx |-> 0]

NoReport == [made |-> FALSE, target |-> EmptyStr, results |-> <<>>, scanners |-> <<>>]

Init ==
    /\ files = <<>>
    /\ now = 0
    /\ cache = [made |-> FALSE, ttl |-> 0, enabled |-> FALSE]
    /\ last = NoCall
    /\ config \in [ttl : TTLs, enabled : BOOLEAN]
    /\ run = NoRun
    /\ task = NoTask
    /\ results = <<>>
    /\ executed = {}
    /\ served = {}
    /\ raisedIn = {}
    /\ cache_keys = <<>>
    /\ report = NoReport
    /\ prevFailed = {}
    /\ built = NoBuilt
    /\ procs = [p \in Procs |-> IdleProc]

-----------------------------------------------------------------------------
(* The Cache API called directly (cli.self_check, maintenance) *)

\* Cache.__init__: mkdir(parents=True, exist_ok=True) is not guarded, so an
\* OSError of mkdir leaves the constructor as an exception
Cache_init(ttl, enabled, io) ==
    /\ ~cache.made
    /\ run.pc = "idle"
    /\ IF enabled /\ io = "mkdir_error"
       THEN /\ last' = Call("__init__", EmptyStr, None, None, FALSE, 0, TRUE)
            /\ UNCHANGED cache
       ELSE /\ cache' = [made |-> TRUE, ttl |-> ttl, enabled |-> enabled]
            /\ last' = Call("__init__", EmptyStr, None, None, TRUE, 0, FALSE)
    /\ UNCHANGED <<files, now, config, procs, built>>
    /\ UNCHANGED scanVars

Cache_get(key, io) ==
    /\ cache.made
    /\ run.pc = "idle"
    /\ files' = get_files(files, cache, key, now, io)
    /\ last' = Call("get", key, None, get_ret(files, cache, key, now, io), TRUE, 0, FALSE)
    /\ UNCHANGED <<now, cache, config, procs, built>>
    /\ UNCHANGED scanVars

Cache_set(key, value, io) ==
    /\ cache.made
    /\ run.pc = "idle"
    /\ files' = set_files(files, cache, key, value, now, io)
    /\ last' = Call("set", key, value, None, set_ret(files, cache, key, value, now, io), 0, FALSE)
    /\ UNCHANGED <<now, cache, config, procs, built>>
    /\ UNCHANGED scanVars

Cache_delete(key, io) ==
    /\ cache.made
    /\ run.pc = "idle"
    /\ files' = delete_files(files, cache, key, io)
    /\ last' = Call("delete", key, None, None, delete_ret(files, cache, key, io), 0, FALSE)
    /\ UNCHANGED <<now, cache, config, procs, built>>
    /\ UNCHANGED scanVars

\* Cache.clear, were it to count the files and leave them in place
Cache_clear_count_only(gone) ==
    /\ cache.made
    /\ run.pc = "idle"
    /\ gone \subseteq DOMAIN files
    /\ files' = files
    /\ last' = Call("clear", EmptyStr, None, None, TRUE,
                    IF cache.enabled THEN Cardinality(gone) ELSE 0, FALSE)
    /\ UNCHANGED <<now, cache, config, procs, built>>
    /\ UNCHANGED scanVars

\* Cache.clear: unlinks the files one by one; `gone` is the set unlinked
\* before the loop ended (all of them, unless an unlink raised)
Cache_clear(gone) ==
    /\ cache.made
    /\ run.pc = "idle"
    /\ gone \subseteq DOMAIN files
    /\ IF cache.enabled
       THEN /\ files' = [p \in (DOMAIN files) \ gone |-> files[p]]
            /\ last' = Call("clear", EmptyStr, None, None, TRUE, Cardinality(gone), FALSE)
       ELSE /\ gone = {}
            /\ files' = files
            /\ last' = Call("clear", EmptyStr, None, None, TRUE, 0, FALSE)
    /\ UNCHANGED <<now, cache, config, procs, built>>
    /\ UNCHANGED scanVars

\* Cache.cleanup_expired: unlinks the expired and the unreadable files;
\* `gone` is the set unlinked before the loop ended
Cache_cleanup_expired(gone) ==
    /\ cache.made
    /\ run.pc = "idle"
    /\ gone \subseteq Stale(files, cache, now)
    /\ IF cache.enabled
       THEN /\ files' = [p \in (DOMAIN files) \ gone |-> files[p]]
            /\ last' = Call("cleanup_expired", EmptyStr, None, None, TRUE, Cardinality(gone), FALSE)
       ELSE /\ gone = {}
            /\ files' = files
            /\ last' = Call("cleanup_expired", EmptyStr, None, None, TRUE, 0, FALSE)
    /\ UNCHANGED <<now, cache, config, procs, built>>
    /\ UNCHANGED scanVars

\* time passes
Tick ==
    /\ now < MaxTime
    /\ now' = now + 1
    /\ UNCHANGED <<files, cache, last, config, procs, built>>
    /\ UNCHANGED scanVars

\* the storage works: every call runs with io = "ok" and every loop ends
CacheNext ==
    \/ \E ttl \in TTLs, enabled \in BOOLEAN : Cache_init(ttl, enabled, "ok")
    \/ \E key \in ApiKeys : Cache_get(key, "ok")
    \/ \E key \in ApiKeys, value \in ApiValues : Cache_set(key, value, "ok")
    \/ \E key \in ApiKeys : Cache_delete(key, "ok")
    \/ Cache_clear(DOMAIN files)
    \/ Cache_cleanup_expired(Stale(files, cache, now))
    \/ Tick

SpecCache == Init /\ [][CacheNext]_vars

\* the storage may fail: any call may hit an OSError at any of its I/O steps,
\* and a loop over the files may end early
CacheFaultNext ==
    \/ \E ttl \in TTLs, enabled \in BOOLEAN : Cache_init(ttl, enabled, "mkdir_error")
    \/ \E key \in ApiKeys, io \in {"read_error", "unlink_error"} : Cache_get(key, io)
    \/ \E key \in ApiKeys, value \in ApiValues, io \in {"open_error", "write_error"} :
          Cache_set(key, value, io)
    \/ \E key \in ApiKeys : Cache_delete(key, "unlink_error")
    \/ \E gone \in SUBSET (DOMAIN files) : Cache_clear(gone)
    \/ \E gone \in SUBSET Stale(files, cache, now) : Cache_cleanup_expired(gone)

SpecCacheFaults == Init /\ [][CacheNext \/ CacheFaultNext]_vars

-----------------------------------------------------------------------------
(* Targets and scanner names, as token sequences *)

Range(seq) == { seq[i] : i \in 1..Len(seq) }

Schemes == {"http://", "https://"}

\* target.startswith(("http://", "https://"))
HasScheme(target) == Len(target) > 0 /\ target[1] \in Schemes

\* str.lower()
lower(tok) ==
    CASE tok = "HTTP" -> "http"
      [] tok = "Example.com" -> "example.com"
      [] OTHER -> tok

\* the port texts urlparse(...).port accepts (0..65535); any other text
\* makes it raise ValueError
ValidPorts == {"443", "8443"}

\* index of the first "/" token, Len + 1 when there is none
FirstSlash(seq) ==
    IF \E i \in 1..Len(seq) : seq[i] = "/"
    THEN CHOOSE i \in 1..Len(seq) : seq[i] = "/" /\ \A j \in 1..(i - 1) : seq[j] # "/"
    ELSE Len(seq) + 1

\* str.rstrip("/")
RECURSIVE rstrip_slash(_)
rstrip_slash(seq) ==
    IF Len(seq) > 0 /\ seq[Len(seq)] = "/"
    THEN rstrip_slash(SubSeq(seq, 1, Len(seq) - 1))
    ELSE seq

\* the targets given on the command line
Targets ==
    { <<"example.com">>,
      <<"https://", "example.com">>,
      <<"https://", "example.com", ":", "99999">> }

\* the --scanner options given on the command line (<<>>: none given)
Requests ==
    { <<>>, <<"dns", "ssl">>, <<"HTTP", "ftp">> }

-----------------------------------------------------------------------------
(* The scanners: target normalisation, cache key, outcome of the probe *)

\* HttpScanner.scan: the URL scanned
http_target(target) ==
    IF HasScheme(target) THEN target ELSE <<"https://">> \o target

\* the key of the HTTP scanner, were it built from the host alone
http_cache_key_host_only(target) ==
    <<"http:">> \o SelectSeq(http_target(target), LAMBDA tok : tok \notin Schemes)

\* cache_key = f"http:{target}"
http_cache_key(target) == <<"http:">> \o http_target(target)

\* DnsScanner.scan: the domain queried
dns_domain(target) ==
    LET stripped == rstrip_slash(SelectSeq(target, LAMBDA tok : tok \notin Schemes))
    IN SubSeq(stripped, 1, FirstSlash(stripped) - 1)

dns_cache_key(target) == <<"dns:">> \o dns_domain(target)

\* SslScanner.scan: the netloc urlparse finds in a target with a scheme
ssl_netloc(target) ==
    LET rest == Tail(target) IN SubSeq(rest, 1, FirstSlash(rest) - 1)

\* SslScanner.scan: urlparse(target).port raises ValueError
ssl_parse_raises(target) ==
    /\ HasScheme(target)
    /\ LET netloc == ssl_netloc(target)
       IN Len(netloc) >= 3 /\ netloc[2] = ":" /\ netloc[3] \notin ValidPorts

ssl_hostname(target) ==
    IF HasScheme(target) THEN <<lower(ssl_netloc(target)[1])>> ELSE target

ssl_port(target) ==
    IF HasScheme(target) /\ Len(ssl_netloc(target)) >= 3 /\ ssl_netloc(target)[2] = ":"
    THEN ssl_netloc(target)[3]
    ELSE "443"

ssl_cache_key(target) ==
    <<"ssl:">> \o ssl_hostname(target) \o <<":", ssl_port(target)>>

\* the statements of scan() before its try block raise
scan_raises(scanner, target) ==
    scanner = "ssl" /\ ssl_parse_raises(target)

cache_key(scanner, target) ==
    CASE scanner = "http" -> http_cache_key(target)
      [] scanner = "dns" -> dns_cache_key(target)
      [] OTHER -> ssl_cache_key(target)

\* the URL names a port no TCP connection can be made to
BadPort(target) ==
    \E i \in 1..(Len(target) - 1) : target[i] = ":" /\ target[i + 1] \notin ValidPorts

\* what the network does to a probe of a target
Outcomes(scanner, target) ==
    CASE scanner = "http" /\ BadPort(target) -> {"error"}
      [] scanner = "http" -> {"response", "timeout", "error"}
      [] scanner = "dns" -> {"answers", "nxdomain", "timeout"}
      [] OTHER -> {"certificate", "no_certificate", "timeout", "ssl_error"}

\* the success result of a scanner: its findings, summary and details
success_result(scanner) ==
    create_result("success", << Signal("info", <<scanner, " finding">>, NoDict) >>,
                  <<scanner, " scan completed">>, PyDict([scanner |-> scanner]))

\* the result scan() builds from the outcome of its network operation
scan_result(scanner, outcome) ==
    CASE scanner = "http" /\ outcome = "response" -> success_result("http")
      \* httpx.TimeoutException; httpx.ConnectError is handled the same way
      [] scanner = "http" /\ outcome = "timeout" ->
            create_degraded_result(Error("TimeoutException", "timeout"),
                                   PyDict([timeout |-> TRUE]))
      [] scanner = "http" -> create_failed_result(Error("Exception", "error"))
      \* dns: an error of one query (a timeout too) is caught inside the
      \* loop and leaves that record type empty; NXDOMAIN fails the scan
      [] scanner = "dns" /\ outcome = "nxdomain" ->
            create_failed_result(Error("Exception", "Domain does not exist"))
      [] scanner = "dns" -> success_result("dns")
      \* ssl: _get_certificate turns every error of the connection (a timeout
      \* too) into None, and scan() fails with "Could not retrieve
      \* certificate"; an ssl.SSLError raised in scan() itself degrades
      [] scanner = "ssl" /\ outcome = "certificate" -> success_result("ssl")
      [] scanner = "ssl" /\ outcome = "ssl_error" ->
            create_degraded_result(Error("SSLError", "ssl_error"),
                                   PyDict([ssl_error |-> "ssl_error"]))
      [] OTHER -> create_failed_result(Error("Exception", "Could not retrieve certificate"))

\* `if cached:`
Truthy(v) == v.ty # "NoneType"

\* scan(), were it to call self.cache.set on every result it returns
writes_cache_any(c, result) == c.made

\* scan() calls self.cache.set only where it has built the success result,
\* and only `if self.cache:`
writes_cache(c, result) == c.made /\ result.status = "success"

-----------------------------------------------------------------------------
(* cli.scan *)

available_scanners == <<"http", "dns", "ssl">>

\* selected_scanners
selected_scanners(scanners) ==
    IF Len(scanners) > 0
    THEN SelectSeq([i \in 1..Len(scanners) |-> lower(scanners[i])],
                   LAMBDA s2 : s2 \in Range(available_scanners))
    ELSE available_scanners

\* run_scans: the tasks list
tasks(selected) == SelectSeq(available_scanners, LAMBDA s2 : s2 \in Range(selected))

Put(f, k, v) == [x \in (DOMAIN f) \cup {k} |-> IF x = k THEN v ELSE f[x]]

\* the keys of this invocation whose probe ran and ended partial or failed
FailedKeys ==
    { cache_keys[s2] : s2 \in { x \in DOMAIN results \cap executed :
                            results[x].status \in {"partial", "failed"} } }

\* cli.scan up to asyncio.run: select the scanners, build the Cache
scan_start(target, scanners, no_cache) ==
    /\ run.pc = "idle"
    /\ run' = [pc |-> "running", target |-> target, requested |-> scanners,
               selected |-> selected_scanners(scanners), no_cache |-> no_cache, idx |-> 1]
    /\ cache' = IF no_cache
                THEN [made |-> FALSE, ttl |-> 0, enabled |-> FALSE]
                ELSE [made |-> TRUE, ttl |-> config.ttl, enabled |-> config.enabled]
    /\ UNCHANGED <<files, now, last, config, procs, built, task, results, executed, served, raisedIn,
                   cache_keys, report, prevFailed>>

\* `await task`, first part: scan() up to its try block. It normalises the
\* target, asks the cache, and returns the cached result when there is one;
\* an exception here leaves scan() and is caught by run_scans, which logs it
scan_begin ==
    /\ run.pc = "running"
    /\ task.pc = "none"
    /\ run.idx <= Len(tasks(run.selected))
    /\ LET scanner == tasks(run.selected)[run.idx]
           key == cache_key(scanner, run.target)
           cached == get_ret(files, cache, key, now, "ok")
       IN IF scan_raises(scanner, run.target)
          THEN /\ raisedIn' = raisedIn \cup {scanner}
               /\ run' = [run EXCEPT !.idx = @ + 1]
               /\ UNCHANGED <<files, last, task, results, served, cache_keys>>
          ELSE /\ cache_keys' = Put(cache_keys, scanner, key)
               /\ IF cache.made
                  THEN /\ files' = get_files(files, cache, key, now, "ok")
                       /\ last' = Call("get", key, None, cached, TRUE, 0, FALSE)
                  ELSE UNCHANGED <<files, last>>
               /\ IF cache.made /\ Truthy(cached)
                  THEN /\ results' = Put(results, scanner, cached)
                       /\ served' = served \cup {scanner}
                       /\ run' = [run EXCEPT !.idx = @ + 1]
                       /\ UNCHANGED task
                  ELSE /\ task' = [pc |-> "executing", scanner |-> scanner, key |-> key]
                       /\ UNCHANGED <<results, served, run>>
               /\ UNCHANGED raisedIn
    /\ UNCHANGED <<now, cache, config, procs, built, executed, report, prevFailed>>

\* `await task`, second part: the try block of scan(). The network operation
\* ends with `outcome`; a success is written to the cache before scan()
\* returns; run_scans stores the result under the scanner's name
scan_execute(outcome) ==
    /\ run.pc = "running"
    /\ task.pc = "executing"
    /\ outcome \in Outcomes(task.scanner, run.target)
    /\ LET result == scan_result(task.scanner, outcome)
       IN /\ IF writes_cache(cache, result)
             THEN /\ files' = set_files(files, cache, task.key, result, now, "ok")
                  /\ last' = Call("set", task.key, result, None,
                                  set_ret(files, cache, task.key, result, now, "ok"), 0, FALSE)
             ELSE UNCHANGED <<files, last>>
          /\ results' = Put(results, task.scanner, result)
    /\ executed' = executed \cup {task.scanner}
    /\ task' = NoTask
    /\ run' = [run EXCEPT !.idx = @ + 1]
    /\ UNCHANGED <<now, cache, config, procs, built, served, raisedIn, cache_keys, report, prevFailed>>

\* asyncio.run, were it to return before the loop of run_scans has ended
all_awaited_early == TRUE

\* asyncio.run(run_scans()) returns when the loop over tasks has ended: no
\* scan() is being awaited and none is left to await
all_awaited == task.pc = "none" /\ run.idx > Len(tasks(run.selected))

\* cli.scan after asyncio.run: scan_data is assembled and exported
scan_report ==
    /\ run.pc = "running"
    /\ all_awaited
    /\ report' = [made |-> TRUE, target |-> run.target, results |-> results,
                  scanners |-> run.selected]
    /\ run' = [run EXCEPT !.pc = "done"]
    /\ UNCHANGED <<files, now, cache, last, config, procs, built, task, results, executed, served,
                   raisedIn, cache_keys, prevFailed>>

\* the process of the invocation ends; the cache directory stays
scan_exit ==
    /\ run.pc = "done"
    /\ prevFailed' = IF cache.made /\ cache.enabled THEN FailedKeys ELSE {}
    /\ run' = NoRun
    /\ cache' = [made |-> FALSE, ttl |-> 0, enabled |-> FALSE]
    /\ task' = NoTask
    /\ results' = <<>>
    /\ executed' = {}
    /\ served' = {}
    /\ raisedIn' = {}
    /\ cache_keys' = <<>>
    /\ report' = NoReport
    /\ last' = NoCall
    /\ UNCHANGED <<files, now, config, procs, built>>

ScanNext ==
    \/ \E target \in Targets, scanners \in Requests, no_cache \in BOOLEAN :
          scan_start(target, scanners, no_cache)
    \/ scan_begin
    \/ \E outcome \in {"response", "timeout", "error", "answers", "nxdomain",
                       "certificate", "no_certificate", "ssl_error"} :
          scan_execute(outcome)
    \/ scan_report
    \/ scan_exit
    \/ run.pc # "done" /\ Tick

SpecScan == Init /\ [][ScanNext]_vars

-----------------------------------------------------------------------------
(* tui.app: AnomRadarTUI *)

\* _run_scan, were it to run the SSL scanner first
tui_scanners_ssl_first == <<"ssl", "http", "dns">>

\* _run_scan awaits the HTTP, the DNS and the SSL scanner, in this order
tui_scanners == <<"http", "dns", "ssl">>

\* AnomRadarTUI.__init__ builds the Cache from the configuration; action_scan
\* reads the target and starts _run_scan
action_scan(target) ==
    /\ run.pc = "idle"
    /\ run' = [pc |-> "tui", target |-> target, requested |-> <<>>,
               selected |-> tui_scanners, no_cache |-> FALSE, idx |-> 1]
    /\ cache' = [made |-> TRUE, ttl |-> config.ttl, enabled |-> config.enabled]
    /\ UNCHANGED <<files, now, last, config, procs, built, task, results, executed, served, raisedIn,
                   cache_keys, report, prevFailed>>

\* `await ..._scanner.scan(target)`, first part: scan() up to its try block.
\* All three awaits stand in one try block: an exception that leaves scan()
\* ends _run_scan with "Scan failed"
run_scan_begin ==
    /\ run.pc = "tui"
    /\ task.pc = "none"
    /\ run.idx <= Len(tui_scanners)
    /\ LET scanner == tui_scanners[run.idx]
           key == cache_key(scanner, run.target)
           cached == get_ret(files, cache, key, now, "ok")
       IN IF scan_raises(scanner, run.target)
          THEN /\ raisedIn' = raisedIn \cup {scanner}
               /\ run' = [run EXCEPT !.pc = "tui_failed"]
               /\ UNCHANGED <<files, last, task, results, served, cache_keys>>
          ELSE /\ cache_keys' = Put(cache_keys, scanner, key)
               /\ files' = get_files(files, cache, key, now, "ok")
               /\ last' = Call("get", key, None, cached, TRUE, 0, FALSE)
               /\ IF Truthy(cached)
                  THEN /\ results' = Put(results, scanner, cached)
                       /\ served' = served \cup {scanner}
                       /\ run' = [run EXCEPT !.idx = @ + 1]
                       /\ UNCHANGED task
                  ELSE /\ task' = [pc |-> "executing", scanner |-> scanner, key |-> key]
                       /\ UNCHANGED <<results, served, run>>
               /\ UNCHANGED raisedIn
    /\ UNCHANGED <<now, cache, config, procs, built, executed, report, prevFailed>>

\* `await ..._scanner.scan(target)`, second part: the try block of scan(),
\* then _log_scan_result writes the result to the log
run_scan_execute(outcome) ==
    /\ run.pc = "tui"
    /\ task.pc = "executing"
    /\ outcome \in Outcomes(task.scanner, run.target)
    /\ LET result == scan_result(task.scanner, outcome)
       IN /\ IF writes_cache(cache, result)
             THEN /\ files' = set_files(files, cache, task.key, result, now, "ok")
                  /\ last' = Call("set", task.key, result, None,
                                  set_ret(files, cache, task.key, result, now, "ok"), 0, FALSE)
             ELSE UNCHANGED <<files, last>>
          /\ results' = Put(results, task.scanner, result)
    /\ executed' = executed \cup {task.scanner}
    /\ task' = NoTask
    /\ run' = [run EXCEPT !.idx = @ + 1]
    /\ UNCHANGED <<now, cache, config, procs, built, served, raisedIn, cache_keys, report, prevFailed>>

\* the three scans have returned: "Scan complete"
run_scan_complete ==
    /\ run.pc = "tui"
    /\ task.pc = "none"
    /\ run.idx > Len(tui_scanners)
    /\ run' = [run EXCEPT !.pc = "tui_complete"]
    /\ UNCHANGED <<files, now, cache, last, config, procs, built, task, results, executed, served,
                   raisedIn, cache_keys, report, prevFailed>>

\* the application is quit; the cache directory stays
action_quit ==
    /\ run.pc \in {"tui_complete", "tui_failed"}
    /\ prevFailed' = IF cache.enabled THEN FailedKeys ELSE {}
    /\ run' = NoRun
    /\ cache' = [made |-> FALSE, ttl |-> 0, enabled |-> FALSE]
    /\ task' = NoTask
    /\ results' = <<>>
    /\ executed' = {}
    /\ served' = {}
    /\ raisedIn' = {}
    /\ cache_keys' = <<>>
    /\ last' = NoCall
    /\ UNCHANGED <<files, now, config, procs, built, report>>

TuiNext ==
    \/ \E target \in Targets : action_scan(target)
    \/ run_scan_begin
    \/ \E outcome \in {"response", "timeout", "error", "answers", "nxdomain",
                       "certificate", "no_certificate", "ssl_error"} :
          run_scan_execute(outcome)
    \/ run_scan_complete
    \/ action_quit
    \/ run.pc = "tui" /\ Tick

SpecTui == Init /\ [][TuiNext]_vars

\* scans started from the command line and scans started in the TUI, in any
\* order, over one cache directory
SpecRuns == Init /\ [][ScanNext \/ TuiNext]_vars

-----------------------------------------------------------------------------
(* cli.scan from its first line: the logging setup *)

\* core.logging: def setup_logging(config: Any), one parameter, no default
setup_logging_parameters == {"config"}

\* cli.scan: setup_logging(level=..., log_file=..., console_output=True,
\* debug=debug)
setup_logging_keywords == {"level", "log_file", "console_output", "debug"}

\* a call raises TypeError when it passes a keyword the function has no
\* parameter for, or leaves a parameter without default unbound
call_raises(parameters, keywords) ==
    \/ ~(keywords \subseteq parameters)
    \/ ~(parameters \subseteq keywords)

\* cli.scan from its first line: get_config, setup_logging, then the steps
\* of scan_start. An exception of the setup leaves the command
cli_scan(target, scanners, no_cache) ==
    IF call_raises(setup_logging_parameters, setup_logging_keywords)
    THEN /\ run.pc = "idle"
         /\ run' = [pc |-> "crashed", target |-> target, requested |-> scanners,
                    selected |-> <<>>, no_cache |-> no_cache, idx |-> 0]
         /\ UNCHANGED <<files, now, cache, last, config, procs, built, task, results, executed, served,
                        raisedIn, cache_keys, report, prevFailed>>
    ELSE scan_start(target, scanners, no_cache)

\* sys.excepthook: writes last_error.json, prints the error, sys.exit(1)
global_exception_handler ==
    /\ run.pc = "crashed"
    /\ run' = NoRun
    /\ UNCHANGED <<files, now, cache, last, config, procs, built, task, results, executed, served,
                   raisedIn, cache_keys, report, prevFailed>>

\* the steps after the logging setup are those of ScanNext
CliNext ==
    \/ \E target \in Targets, scanners \in Requests, no_cache \in BOOLEAN :
          cli_scan(target, scanners, no_cache)
    \/ global_exception_handler
    \/ Tick

SpecCli == Init /\ [][CliNext]_vars

-----------------------------------------------------------------------------
(* The result builders of BaseScanner, called on their own *)

\* the exceptions handed to the builders: the scanners pass what httpx,
\* dnspython, ssl and socket raised or an Exception of their own, the tests
\* pass Exception("Test error"); str(error) may be empty
Errors ==
    { Error(type, msg) :
        type \in {"Exception", "TimeoutException", "ConnectError", "SSLError"},
        msg \in {"", "Test error"} }

\* partial_data / details: left out, empty, or some collected data
PartialData ==
    { NoDict, PyDict(EmptyDict), PyDict([partial |-> "data"]), PyDict([timeout |-> TRUE]) }

SignalLists ==
    { <<>>,
      << Signal("info", <<"Test">>, PyDict(EmptyDict)) >>,
      << Signal("info", <<"Test">>, PyDict(EmptyDict)),
         Signal("high", <<"Test">>, NoDict) >> }

Summaries == { <<"Test summary">>, EmptyStr }

\* every call of create_result in the repository passes ScanStatus.SUCCESS
Statuses == { "success" }

call_create_result(status, signals, summary, details) ==
    /\ built' = [fn |-> "create_result", error |-> Error("", ""), data |-> details,
                 result |-> create_result(status, signals, summary, details)]
    /\ UNCHANGED <<files, now, cache, last, config, procs, run, task, results, executed, served,
                   raisedIn, cache_keys, report, prevFailed>>

call_create_degraded_result(error, partial_data) ==
    /\ built' = [fn |-> "create_degraded_result", error |-> error, data |-> partial_data,
                 result |-> create_degraded_result(error, partial_data)]
    /\ UNCHANGED <<files, now, cache, last, config, procs, run, task, results, executed, served,
                   raisedIn, cache_keys, report, prevFailed>>

call_create_failed_result(error) ==
    /\ built' = [fn |-> "create_failed_result", error |-> error, data |-> NoDict,
                 result |-> create_failed_result(error)]
    /\ UNCHANGED <<files, now, cache, last, config, procs, run, task, results, executed, served,
                   raisedIn, cache_keys, report, prevFailed>>

ResultNext ==
    \/ \E status \in Statuses, signals \in SignalLists, summary \in Summaries,
          details \in PartialData :
          call_create_result(status, signals, summary, details)
    \/ \E error \in Errors, partial_data \in PartialData :
          call_create_degraded_result(error, partial_data)
    \/ \E error \in Errors : call_create_failed_result(error)

SpecResult == Init /\ [][ResultNext]_vars

-----------------------------------------------------------------------------
(* Two processes on one cache directory. Each Cache method is the sequence  *)
(* of its file operations (exists, open, read, write, unlink); the steps of *)
(* the two processes interleave. A method that has returned stays "done"    *)
(* until both processes are back outside a call.                            *)

\* the values the processes write: JSON texts of different lengths
ProcValues ==
    { PyVal("str", "", <<"b">>, "", ""),
      PyVal("str", "", <<"a", " much longer value">>, "", "") }

\* open(path, "w") has created or truncated the file, nothing is written yet
Empty == [kind |-> "empty", value |-> json_dump(None), timestamp |-> 0]

\* the length of the text in a file
text_len(content) ==
    IF content.kind \in {"record", "mixed"} THEN Len(content.value.body) ELSE 0

\* a text written over a longer one: the new text, then the tail of the old
Mixed(old) == [kind |-> "mixed", value |-> old.value, timestamp |-> old.timestamp]

\* write() at offset 0 of a file that may have got content since it was
\* opened: what lies beyond the end of the new text stays
write_at_0(old, new) ==
    IF text_len(old) > text_len(new) THEN Mixed(old) ELSE new

\* unlink(path): the writers that hold the file open keep writing to a file
\* that has no name any more
Detach(ps, path) ==
    [q \in Procs |->
        IF ps[q].pc = "set_opened" /\ get_cache_path(ps[q].key) = path
        THEN [ps[q] EXCEPT !.detached = TRUE]
        ELSE ps[q]]

\* the other process is inside a set
Overlaps(p) == \E q \in Procs \ {p} : procs[q].pc = "set_opened"

Done(p, ok, ret, count) ==
    [procs[p] EXCEPT !.pc = "done", !.ok = ok, !.ret = ret, !.count = count]

ProcFrame ==
    UNCHANGED <<now, cache, last, config, built, run, task, results, executed, served,
                raisedIn, cache_keys, report, prevFailed>>

\* Cache.set up to the `with open(cache_path, "w")`: data is built with
\* time.time(), the file is created or truncated
set_open(p, key, value) ==
    /\ cache.made /\ run.pc = "idle"
    /\ procs[p].pc = "idle"
    /\ IF ~cache.enabled
       THEN /\ procs' = [procs EXCEPT ![p] =
                           [IdleProc EXCEPT !.pc = "done", !.op = "set", !.key = key,
                                            !.value = value]]
            /\ UNCHANGED files
       ELSE /\ procs' = [procs EXCEPT ![p] =
                           [IdleProc EXCEPT !.pc = "set_opened", !.op = "set", !.key = key,
                                            !.value = value, !.ts = now,
                                            !.overlap = Overlaps(p)]]
            /\ files' = Write(files, get_cache_path(key), Empty)
    /\ ProcFrame

\* Cache.set: json.dump fills the buffer, leaving the `with` block writes it
\* to the file and closes it; set returns True
set_close(p) ==
    /\ procs[p].pc = "set_opened"
    /\ LET path == get_cache_path(procs[p].key) IN
       files' = IF procs[p].detached
                THEN files
                ELSE Write(files, path,
                           write_at_0(files[path], Record(procs[p].value, procs[p].ts)))
    /\ procs' = [procs EXCEPT ![p] = Done(p, TRUE, None, 0)]
    /\ ProcFrame

\* Cache.get: `if not cache_path.exists(): return None`
get_exists(p, key) ==
    /\ cache.made /\ run.pc = "idle"
    /\ procs[p].pc = "idle"
    /\ procs' = [procs EXCEPT ![p] =
                    [IdleProc EXCEPT !.op = "get", !.key = key,
                                     !.pc = IF cache.enabled /\ get_cache_path(key) \in DOMAIN files
                                            THEN "get_exists" ELSE "done"]]
    /\ UNCHANGED files
    /\ ProcFrame

\* Cache.get: open, json.load, the expiry test. A file that has gone or
\* does not parse makes get return None
get_read(p) ==
    /\ procs[p].pc = "get_exists"
    /\ LET path == get_cache_path(procs[p].key) IN
       procs' = [procs EXCEPT ![p] =
                    IF path \notin DOMAIN files \/ ~Readable(files[path])
                    THEN Done(p, FALSE, None, 0)
                    ELSE IF Expired(files[path], now, cache.ttl)
                    THEN [procs[p] EXCEPT !.pc = "get_unlink"]
                    ELSE Done(p, TRUE, json_load(files[path].value), 0)]
    /\ UNCHANGED files
    /\ ProcFrame

\* Cache.get: cache_path.unlink() of the entry found expired
get_unlink(p) ==
    /\ procs[p].pc = "get_unlink"
    /\ LET path == get_cache_path(procs[p].key) IN
       IF path \in DOMAIN files
       THEN /\ files' = Remove(files, path)
            /\ procs' = [Detach(procs, path) EXCEPT ![p] = Done(p, FALSE, None, 0)]
       ELSE /\ UNCHANGED files
            /\ procs' = [procs EXCEPT ![p] = Done(p, FALSE, None, 0)]
    /\ ProcFrame

\* Cache.cleanup_expired: glob("*.json") lists the files
cleanup_glob(p) ==
    /\ cache.made /\ run.pc = "idle"
    /\ procs[p].pc = "idle"
    /\ procs' = [procs EXCEPT ![p] =
                    [IdleProc EXCEPT !.op = "cleanup_expired",
                                     !.todo = IF cache.enabled THEN DOMAIN files ELSE {},
                                     !.pc = IF cache.enabled /\ DOMAIN files # {}
                                            THEN "cleanup_loop" ELSE "done"]]
    /\ UNCHANGED files
    /\ ProcFrame

\* Cache.cleanup_expired: the next file is opened and parsed. An expired or
\* unreadable file goes on to unlink; a file that has gone makes the unlink
\* of the except branch raise, which ends the loop
cleanup_read(p, path) ==
    /\ procs[p].pc = "cleanup_loop"
    /\ path \in procs[p].todo
    /\ LET rest == procs[p].todo \ {path} IN
       procs' = [procs EXCEPT ![p] =
                    IF path \notin DOMAIN files
                    THEN Done(p, TRUE, None, procs[p].count)
                    ELSE IF ~Readable(files[path]) \/ Expired(files[path], now, cache.ttl)
                    THEN [procs[p] EXCEPT !.pc = "cleanup_unlink", !.cur = path, !.todo = rest]
                    ELSE IF rest = {}
                    THEN Done(p, TRUE, None, procs[p].count)
                    ELSE [procs[p] EXCEPT !.todo = rest]]
    /\ UNCHANGED files
    /\ ProcFrame

\* Cache.cleanup_expired: cache_file.unlink(); count += 1
cleanup_unlink(p) ==
    /\ procs[p].pc = "cleanup_unlink"
    /\ LET path == procs[p].cur
           counted == [procs[p] EXCEPT !.count = @ + 1, !.cur = EmptyStr]
       IN
       IF path \in DOMAIN files
       THEN /\ files' = Remove(files, path)
            /\ procs' = [Detach(procs, path) EXCEPT ![p] =
                            IF procs[p].todo = {}
                            THEN [counted EXCEPT !.pc = "done", !.ok = TRUE]
                            ELSE [counted EXCEPT !.pc = "cleanup_loop"]]
       ELSE /\ UNCHANGED files
            /\ procs' = [procs EXCEPT ![p] = Done(p, TRUE, None, procs[p].count)]
    /\ ProcFrame

\* both processes are outside a call again
procs_return ==
    /\ \A p \in Procs : procs[p].pc \in {"idle", "done"}
    /\ \E p \in Procs : procs[p].pc = "done"
    /\ procs' = [p \in Procs |-> IdleProc]
    /\ UNCHANGED files
    /\ ProcFrame

ProcNext ==
    \/ \E ttl \in TTLs, enabled \in BOOLEAN : Cache_init(ttl, enabled, "ok")
    \/ \E p \in Procs, key \in ApiKeys, value \in ProcValues : set_open(p, key, value)
    \/ \E p \in Procs : set_close(p)
    \/ \E p \in Procs, key \in ApiKeys : get_exists(p, key)
    \/ \E p \in Procs : get_read(p)
    \/ \E p \in Procs : get_unlink(p)
    \/ \E p \in Procs : cleanup_glob(p)
    \/ \E p \in Procs, path \in DOMAIN files \cup UNION { procs[q].todo : q \in Procs } :
          cleanup_read(p, path)
    \/ \E p \in Procs : cleanup_unlink(p)
    \/ procs_return
    \/ Tick

SpecProcs == Init /\ [][ProcNext]_vars

-----------------------------------------------------------------------------
(* A second Cache object on the same directory, built with a TTL of its own *)
(* (cli.self_check builds Cache(ttl=60) on the configured directory; a run   *)
(* after the configured TTL was changed does the same). `cache` is the       *)
(* object that wrote the entries.                                            *)

\* the TTLs of the second object
OtherTTLs == 1..(MaxTTL + 1)

OtherCache(ttl) == [made |-> TRUE, ttl |-> ttl, enabled |-> TRUE]

\* Cache(ttl=ttl, ...).get(key)
Other_get(ttl, key) ==
    /\ cache.made
    /\ run.pc = "idle"
    /\ files' = get_files(files, OtherCache(ttl), key, now, "ok")
    /\ last' = Call("get", key, None, get_ret(files, OtherCache(ttl), key, now, "ok"),
                    TRUE, 0, FALSE)
    /\ UNCHANGED <<now, cache, config, procs, built>>
    /\ UNCHANGED scanVars

\* Cache(ttl=ttl, ...).cleanup_expired()
Other_cleanup_expired(ttl) ==
    /\ cache.made
    /\ run.pc = "idle"
    /\ LET gone == Stale(files, OtherCache(ttl), now) IN
       /\ files' = [p \in (DOMAIN files) \ gone |-> files[p]]
       /\ last' = Call("cleanup_expired", EmptyStr, None, None, TRUE, Cardinality(gone), FALSE)
    /\ UNCHANGED <<now, cache, config, procs, built>>
    /\ UNCHANGED scanVars

OtherNext ==
    \/ \E ttl \in OtherTTLs, key \in ApiKeys : Other_get(ttl, key)
    \/ \E ttl \in OtherTTLs : Other_cleanup_expired(ttl)

SpecTtl == Init /\ [][CacheNext \/ OtherNext]_vars

-----------------------------------------------------------------------------
(* Claims about the Cache *)

\* JSON has a type of its own for these Python values
JsonNative(v) ==
    \/ v.ty \in {"NoneType", "str", "int", "list"}
    \/ v.ty = "dict" /\ v.keys = "str"

\* a get(k) that directly follows a successful set(k, v), no time in between
GetRightAfterSet(k) ==
    /\ last.op = "set" /\ last.ok /\ last.key = k /\ last.at = now
    /\ cache.enabled
    /\ Cache_get(k, "ok")

\* C4 as stated: for every key k and every value v, a set(k, v) that reports
\* success followed immediately by get(k) on an enabled cache returns v.
C4_RoundTripAnyValue ==
    [][\A k \in ApiKeys : GetRightAfterSet(k) => last'.ret = last.arg]_vars

\* C4 amended: the round trip returns v for every value v that JSON
\* represents with a type of its own (None, str, int, list, dict with str
\* keys); a tuple comes back as a list and a dict with non-str keys comes
\* back with str keys.
C4_RoundTripJsonNative ==
    [][\A k \in ApiKeys :
          GetRightAfterSet(k) =>
             /\ JsonNative(last.arg) => last'.ret = last.arg
             /\ last.arg.ty = "tuple" => last'.ret = [last.arg EXCEPT !.ty = "list"]
             /\ last.arg.keys = "int" => last'.ret = [last.arg EXCEPT !.keys = "str"]]_vars

\* C4 witness: a get has just returned the list that the set before it stored
C4_Witness ==
    /\ last.op = "get" /\ last.ret.ty = "list" /\ last.pre.kind = "record"
    /\ last.pre.timestamp = last.at
    /\ cache.enabled

\* C5: for an entry with lifetime t, get(k) returns absent once the time
\* elapsed since the write exceeds t, and after that get the store no longer
\* contains the entry.
C5_ExpiredIsMissAndPurged ==
    (/\ last.op = "get" /\ cache.enabled
     /\ last.pre.kind = "record"
     /\ last.at - last.pre.timestamp > cache.ttl)
    => /\ last.ret = None
       /\ get_cache_path(last.key) \notin DOMAIN files

\* C5 witness: a get has found a complete record older than the TTL
C5_Witness ==
    /\ last.op = "get" /\ cache.enabled
    /\ last.pre.kind = "record"
    /\ last.at - last.pre.timestamp > cache.ttl
    /\ last.pre.value.jty = "string"

\* C6: corrupted cache data for a key makes get(key) return absent without
\* raising, and that get removes the corrupted entry from the store.
C6_CorruptIsMissAndRemoved ==
    (/\ last.op = "get" /\ cache.enabled
     /\ last.pre.kind = "truncated")
    => /\ last.ret = None
       /\ ~last.raised
       /\ get_cache_path(last.key) \notin DOMAIN files

\* C7: no Cache operation (constructor, get, set, delete, clear,
\* cleanup_expired) lets a storage I/O error out to its caller.
C7_CacheNeverRaises ==
    ~last.raised

-----------------------------------------------------------------------------
(* Claims about the scan run *)

\* the scanner whose scan() the run awaits next
NextScanner == tasks(run.selected)[run.idx]

\* the names asked for on the command line (all three when none is given)
Requested ==
    IF Len(run.requested) = 0 THEN Range(available_scanners)
    ELSE { lower(run.requested[i]) : i \in 1..Len(run.requested) }

\* the cache is in use in this invocation
CacheOn == cache.made /\ cache.enabled

\* C1: the report of a scan run has exactly one entry per requested probe,
\* no probe missing and none extra, even when probes raise.
C1_ReportHasExactlyRequested ==
    run.pc = "done" =>
        DOMAIN report.results = Requested \cap Range(available_scanners)

\* C2: only Success outcomes are written to the cache: every record in the
\* store holds a success result; a probe that ran and ended Partial or Failed
\* leaves no entry under its key; and a probe whose key ended Partial or
\* Failed in the invocation before runs its network operation again.
C2_OnlySuccessCached ==
    /\ \A p \in DOMAIN files :
          files[p].kind = "record" => files[p].value.status = "success"
    /\ \A s \in DOMAIN results \cap executed :
          (CacheOn /\ results[s].status \in {"partial", "failed"})
             => FileOf(files, cache_keys[s]).kind = "absent"
    /\ \A s \in DOMAIN results \cap DOMAIN cache_keys :
          (CacheOn /\ cache_keys[s] \in prevFailed) => s \in executed /\ s \notin served

\* C2 witness: a probe that ended partial or failed in the invocation before
\* has run again, and failed again, with the cache in use
C2_Witness ==
    \E s \in DOMAIN results \cap DOMAIN cache_keys :
        /\ CacheOn
        /\ cache_keys[s] \in prevFailed
        /\ s \in executed
        /\ results[s].status \in {"partial", "failed"}

\* C3: when a valid, unexpired entry exists for a probe and its normalized
\* target, scan returns exactly the stored result and performs no network
\* operation.
C3_CacheHit ==
    [][(/\ scan_begin
        /\ CacheOn
        /\ ~scan_raises(NextScanner, run.target)
        /\ FileOf(files, cache_key(NextScanner, run.target)).kind = "record"
        /\ now - FileOf(files, cache_key(NextScanner, run.target)).timestamp <= cache.ttl)
       => /\ NextScanner \in DOMAIN results'
          /\ results'[NextScanner] =
                json_load(FileOf(files, cache_key(NextScanner, run.target)).value)
          /\ task'.pc = "none"
          /\ NextScanner \in served'
          /\ NextScanner \notin executed']_vars

\* C3 witness: the cache lookup of a scanner found an entry written at an
\* earlier time, and the scanner was answered from it
C3_Witness ==
    \E s \in served :
        /\ s \notin executed
        /\ last.op = "get" /\ last.key = cache_keys[s]
        /\ last.pre.kind = "record"
        /\ last.pre.timestamp < last.at
        /\ results[s] = json_load(last.pre.value)

\* C8: a probe whose scan raises never makes the run raise, and the run
\* records that probe in results as a Failed result with error information.
C8_RaisedProbeRecordedFailed ==
    run.pc = "done" =>
        \A s \in raisedIn :
            /\ s \in DOMAIN report.results
            /\ report.results[s].status = "failed"
            /\ report.results[s].error # ""

\* C9: a requested name outside the catalog (http, dns, ssl) makes the run
\* fail before any probe starts: no probe is begun, none is executed and no
\* report is made.
C9_UnknownNameRejected ==
    (\E name \in Requested : name \notin Range(available_scanners)) =>
        /\ task.pc = "none"
        /\ executed = {}
        /\ served = {}
        /\ ~report.made

\* C10: scan(target) of every scanner never raises.
C10_ScanNeverRaises ==
    raisedIn = {}

-----------------------------------------------------------------------------
(* Claims about the concurrency and the completion of the scan run *)

\* the scanners of this run whose scan() has not been entered yet
NotStarted ==
    Range(tasks(run.selected)) \ (DOMAIN cache_keys \cup raisedIn)

\* C11: within one scan run no probe waits for another probe: whenever a
\* requested probe has not started yet, it can start, whatever the other
\* probes of the run are doing.
C11_NoProbeWaitsForAnother ==
    (run.pc = "running" /\ NotStarted # {}) => ENABLED scan_begin

\* C12: join before report: when the report is assembled, every dispatched
\* probe of the run has ended (served from the cache, executed to a result,
\* or left by an exception) and no probe is still running.
C12_JoinBeforeReport ==
    report.made =>
        /\ task.pc = "none"
        /\ NotStarted = {}
        /\ Range(tasks(run.selected)) \subseteq served \cup executed \cup raisedIn
        /\ report.results = results

C12_Witness ==
    /\ report.made
    /\ Cardinality(executed) >= 2
    /\ served # {}

C14_NoRunEndsWithoutReport ==
    run.pc = "crashed" => report.made

-----------------------------------------------------------------------------
(* Claims about the outcome of a probe *)

\* C15: when the network operation of a probe times out, the outcome of
\* that probe is failed with the error category timeout, for the HTTP, the
\* DNS and the SSL scanner.
C15_TimeoutIsFailedTimeout ==
    [][ (run.pc = "running" /\ task.pc = "executing" /\ scan_execute("timeout"))
        => /\ results'[task.scanner].status = "failed"
           /\ results'[task.scanner].error = "timeout" ]_vars

\* C16: write before return: once a probe execution has ended in success
\* with the cache enabled, the file of its cache key holds that result, and
\* a get for the key within the TTL returns the result.
C16_WriteBeforeReturn ==
    \A s2 \in executed :
        (results[s2].status = "success" /\ CacheOn) =>
            LET f == FileOf(files, cache_keys[s2]) IN
            /\ f.kind = "record"
            /\ json_load(f.value) = results[s2]
            /\ (now - f.timestamp <= cache.ttl
                  => get_ret(files, cache, cache_keys[s2], now, "ok") = results[s2])

C16_Witness ==
    /\ CacheOn
    /\ last.op = "set" /\ last.ok /\ last.at = now
    /\ \E s2 \in executed :
          /\ results[s2].status = "success"
          /\ last.key = cache_keys[s2]
          /\ get_ret(files, cache, cache_keys[s2], now, "ok") = results[s2]

-----------------------------------------------------------------------------
(* Claims about the maintenance of the cache *)

\* C17: cleanup_expired removes exactly the entries older than the TTL and
\* the corrupted entries, leaves every other entry as it was, returns the
\* number of entries it removed, and a second call right after the first
\* removes nothing and returns 0.
C17_CleanupExpiredExact ==
    [][ (last'.op = "cleanup_expired" /\ cache.made /\ cache.enabled /\ now' = now)
        => /\ DOMAIN files' = { p \in DOMAIN files :
                                  /\ files[p].kind = "record"
                                  /\ now - files[p].timestamp <= cache.ttl }
           /\ \A p \in DOMAIN files' : files'[p] = files[p]
           /\ last'.count = Cardinality(DOMAIN files) - Cardinality(DOMAIN files')
           /\ (last.op = "cleanup_expired" /\ last.at = now)
                 => (last'.count = 0 /\ files' = files) ]_vars

C17_Witness ==
    /\ cache.enabled
    /\ last.op = "cleanup_expired" /\ last.at = now
    /\ last.count = 1 /\ last.nfiles = 2
    /\ \E p \in DOMAIN files :
          files[p].kind = "record" /\ now - files[p].timestamp <= cache.ttl

-----------------------------------------------------------------------------
(* Claims about the shape of a result *)

ResultKeys == {"status", "signals", "summary", "details"}

\* C18: every result a scanner returned, computed or served from the cache,
\* is a dict with the keys status, signals, summary and details, and its
\* status is success, partial or failed.
C18_ResultHasKeysAndStatus ==
    \A s2 \in DOMAIN results :
        /\ results[s2].ty = "dict"
        /\ ResultKeys \subseteq DOMAIN results[s2].body
        /\ results[s2].body.status \in {"success", "partial", "failed"}

C18_Witness ==
    /\ served # {}
    /\ \E s2 \in served : ResultKeys \subseteq DOMAIN results[s2].body
    /\ \E s2 \in executed :
          /\ results[s2].body.status = "failed"
          /\ ResultKeys \subseteq DOMAIN results[s2].body
    /\ \E s2 \in executed : results[s2].body.status = "partial"

\* C19: a result has the "error" key exactly when its status is not
\* success: create_degraded_result and create_failed_result always set it,
\* to the message of the error, and create_result never sets it.
C19_ErrorIffNotSuccess ==
    built.fn # "" =>
        /\ "error" \in DOMAIN built.result.body <=> built.result.body.status # "success"
        /\ built.fn \in {"create_degraded_result", "create_failed_result"} =>
              /\ "error" \in DOMAIN built.result.body
              /\ built.result.body.error = built.error.msg
        /\ built.fn = "create_result" => "error" \notin DOMAIN built.result.body

C19_Witness ==
    /\ built.fn = "create_degraded_result"
    /\ built.error.msg = "Test error"
    /\ built.result.body.error = "Test error"
    /\ built.result.body.status = "partial"

\* C20: a failed result has at most one finding, a diagnostic placeholder,
\* and empty details; a partial result has as details exactly the partial
\* data create_degraded_result was given.
C20_ShapeByStatus ==
    /\ built.fn = "create_failed_result" =>
          /\ built.result.body.status = "failed"
          /\ Len(built.result.body.signals) <= 1
          /\ \A i \in 1..Len(built.result.body.signals) :
                built.result.body.signals[i].severity = "info"
          /\ DOMAIN built.result.body.details = {}
    /\ built.fn = "create_degraded_result" =>
          /\ built.result.body.status = "partial"
          /\ IF built.data.ty = "NoneType"
             THEN DOMAIN built.result.body.details = {}
             ELSE built.result.body.details = built.data.val

C20_Witness ==
    /\ built.fn = "create_degraded_result"
    /\ built.data = PyDict([partial |-> "data"])
    /\ built.result.body.details.partial = "data"

-----------------------------------------------------------------------------
(* Claims about clear, concurrent access, keys and the disabled cache *)

\* C21: clear removes all entries: after clear has returned, get(k) is
\* absent for every key k, and the count returned is the number of entries
\* that were removed.
C21_ClearRemovesAll ==
    (last.op = "clear" /\ last.at = now) =>
        /\ DOMAIN files = {}
        /\ \A k \in ApiKeys : get_ret(files, cache, k, now, "ok") = None
        /\ last.count = last.nfiles

C21_Witness ==
    /\ cache.enabled
    /\ last.op = "clear" /\ last.at = now
    /\ last.count = 2
    /\ DOMAIN files = {}

\* both processes have returned from a set
BothSet(p, q) ==
    /\ p # q
    /\ procs[p].pc = "done" /\ procs[p].op = "set" /\ procs[p].ok
    /\ procs[q].pc = "done" /\ procs[q].op = "set" /\ procs[q].ok

\* C22: writers to different keys never conflict: in every interleaving of
\* set(k1, v1) and set(k2, v2) with k1 # k2, once both have returned the
\* entry of k1 holds v1 and the entry of k2 holds v2.
C22_DifferentKeysNoConflict ==
    \A p, q \in Procs :
        (BothSet(p, q) /\ procs[p].key # procs[q].key) =>
            LET f == FileOf(files, procs[p].key) IN
            /\ f.kind = "record"
            /\ json_load(f.value) = procs[p].value
            /\ f.timestamp = procs[p].ts

C22_Witness ==
    \E p, q \in Procs :
        /\ BothSet(p, q) /\ procs[p].key # procs[q].key
        /\ procs[q].overlap
        /\ procs[p].value # procs[q].value
        /\ json_load(FileOf(files, procs[p].key).value) = procs[p].value
        /\ json_load(FileOf(files, procs[q].key).value) = procs[q].value

\* C23: last write wins on one key: when two set calls on the same key
\* run concurrently, in every interleaving of their steps the entry left
\* after both have returned is a complete, readable record that holds the
\* value of one of the two writers.
C23_SameKeyLastWriteWins ==
    \A p, q \in Procs :
        (BothSet(p, q) /\ procs[p].key = procs[q].key) =>
            LET f == FileOf(files, procs[p].key) IN
            /\ Readable(f)
            /\ json_load(f.value) \in {procs[p].value, procs[q].value}

\* the entry of key k counts as absent by the TTL it was written with
AbsentByOwnTTL(k) ==
    \/ ~Readable(FileOf(files, k))
    \/ now - FileOf(files, k).timestamp > cache.ttl

\* C24: the expiry of an entry is decided by the TTL it was written with:
\* whatever the TTL of the Cache object that reads or purges, a get misses
\* exactly when now - timestamp exceeds the TTL of the writer, and neither
\* get nor cleanup_expired removes an entry that is younger than that.
C24_ExpiryByOwnTTL ==
    [][ /\ \A ttl \in OtherTTLs, k \in ApiKeys :
              (cache.enabled /\ Other_get(ttl, k)) =>
                  /\ (last'.ret.ty = "NoneType") <=> AbsentByOwnTTL(k)
                  /\ ~AbsentByOwnTTL(k) => files' = files
        /\ \A ttl \in OtherTTLs :
              (cache.enabled /\ Other_cleanup_expired(ttl)) =>
                  \A k \in ApiKeys :
                      ~AbsentByOwnTTL(k) => FileOf(files', k) = FileOf(files, k) ]_vars

\* the targets whose keys are compared with the keys of the run
KeyTargets ==
    Targets \cup { <<"http://", "example.com">>,
                   <<"example.org">>,
                   <<"https://", "example.com", ":", "8443">> }

\* the target as the scanner normalises it before it builds its key
normalized(scanner, target) ==
    CASE scanner = "http" -> http_target(target)
      [] scanner = "dns" -> dns_domain(target)
      [] OTHER -> ssl_hostname(target) \o <<ssl_port(target)>>

\* C25: key derivation is deterministic and injective: two (probe,
\* normalized target) pairs get the same cache file exactly when they are
\* the same pair, and the result a probe is served from the cache is a result
\* of that probe stored under the key of that probe and target.
C25_KeysInjective ==
    /\ (run.pc = "running" /\ run.idx = 1 /\ task.pc = "none") =>
          \A s1 \in Range(available_scanners), s2 \in Range(available_scanners),
             t2 \in KeyTargets :
             (~scan_raises(s1, run.target) /\ ~scan_raises(s2, t2)) =>
                 ( get_cache_path(cache_key(s1, run.target)) = get_cache_path(cache_key(s2, t2))
                   <=> (s1 = s2 /\ normalized(s1, run.target) = normalized(s2, t2)) )
    /\ \A s2 \in served :
          /\ cache_keys[s2] = cache_key(s2, run.target)
          /\ results[s2].body.summary[1] = s2

C25_Witness ==
    /\ run.pc = "running"
    /\ served # {}
    /\ \E s1 \in served, s2 \in executed :
          /\ cache_keys[s1] # cache_keys[s2]
          /\ results[s1].body.summary[1] = s1
          /\ results[s2].status = "success"

\* C26: a probe run never creates, overwrites or deletes a cache entry
\* under a key other than the key of its own probe and normalized target:
\* every step of a probe leaves every other file as it was.
C26_ProbeTouchesOwnKeyOnly ==
    [][ (run.pc = "running" /\ run.idx <= Len(tasks(run.selected)) /\ files' # files) =>
            LET own == get_cache_path(cache_key(tasks(run.selected)[run.idx], run.target))
            IN \A path \in (DOMAIN files \cup DOMAIN files') \ {own} :
                  /\ path \in DOMAIN files
                  /\ path \in DOMAIN files'
                  /\ files'[path] = files[path] ]_vars

C26_Witness ==
    /\ run.pc = "running"
    /\ last.op = "set" /\ last.ok /\ last.at = now
    /\ last.pre.kind = "absent"
    /\ last.nfiles >= 1
    /\ Cardinality(DOMAIN files) = last.nfiles + 1

\* the outcomes in which the network operations of a probe failed
NetworkFailures == {"timeout", "error", "nxdomain", "no_certificate", "ssl_error"}

\* C27: graceful degradation: a scanner whose network operations fail
\* returns partial or failed with error information, never success, and the
\* DNS scanner returns failed with an error for a domain that does not exist.
C27_FailureNeverSuccess ==
    [][ \A outcome \in NetworkFailures :
            (run.pc = "running" /\ task.pc = "executing" /\ scan_execute(outcome)) =>
                /\ results'[task.scanner].status \in {"partial", "failed"}
                /\ "error" \in DOMAIN results'[task.scanner].body
                /\ (task.scanner = "dns" /\ outcome = "nxdomain")
                      => results'[task.scanner].status = "failed" ]_vars

\* a process is between the open and the close of a set on this file
BeingWritten(path) ==
    \E q \in Procs : procs[q].pc = "set_opened" /\ get_cache_path(procs[q].key) = path

\* C28: under concurrent access to the shared store, the unlink of a get or
\* of a cleanup_expired never removes an entry that a set has written and
\* that has not expired, nor a file that a set is still writing.
C28_UnlinkSparesLiveEntries ==
    [][ \A path \in DOMAIN files \ DOMAIN files' :
            /\ ~(Readable(files[path]) /\ ~Expired(files[path], now, cache.ttl))
            /\ ~BeingWritten(path) ]_vars

\* C29: a set that fails leaves the entry stored under its key as it was,
\* so that a following get within the TTL still returns the old value.
C29_FailedSetKeepsOldEntry ==
    (last.op = "set" /\ ~last.ok /\ cache.enabled /\ Readable(last.pre))
        => FileOf(files, last.key) = last.pre

-----------------------------------------------------------------------------
(* A cache directory that has entries, used with the cache switched off:   *)
(* invocations with and without --no-cache, with cache.enabled read anew   *)
(* at each invocation, and Cache objects made on the same directory        *)

OffTarget == <<"example.com">>

OffRequest == <<"HTTP", "ftp">>

\* the keys used through the Cache API: one of its own and the scan's
OffKeys == { <<"test_key">>, cache_key("http", OffTarget) }

OffValues == { PyVal("str", "", "test_value", "", ""), PyVal("set", "", "1,2", "", "") }

\* get_config() at the start of an invocation: the cache settings are read
\* from the environment and the TOML file of that moment
config_load(ttl, enabled) ==
    /\ run.pc = "idle"
    /\ config' = [ttl |-> ttl, enabled |-> enabled]
    /\ config' # config
    /\ UNCHANGED <<files, now, cache, last, procs, built>>
    /\ UNCHANGED scanVars

\* the files a loop of clear or cleanup_expired unlinks: a disabled cache
\* returns 0 before the loop
Unlinked(all) == IF cache.enabled THEN all ELSE {}

OffNext ==
    \/ \E ttl \in TTLs, enabled \in BOOLEAN : config_load(ttl, enabled)
    \/ \E ttl \in TTLs, enabled \in BOOLEAN : Cache_init(ttl, enabled, "ok")
    \/ \E key \in OffKeys : Cache_get(key, "ok")
    \/ \E key \in OffKeys, value \in OffValues : Cache_set(key, value, "ok")
    \/ \E key \in OffKeys : Cache_delete(key, "ok")
    \/ Cache_clear(Unlinked(DOMAIN files))
    \/ Cache_cleanup_expired(Unlinked(Stale(files, cache, now)))
    \/ \E no_cache \in BOOLEAN : scan_start(OffTarget, OffRequest, no_cache)
    \/ scan_begin
    \/ \E outcome \in {"response", "timeout", "error"} : scan_execute(outcome)
    \/ scan_report
    \/ scan_exit
    \/ run.pc # "done" /\ Tick

SpecOff == Init /\ [][OffNext]_vars

\* no cache object, or a Cache made with enabled=False
Uncached == ~(cache.made /\ cache.enabled)

\* a step in which a method of the Cache object is called directly
ApiCall ==
    /\ cache.made /\ run.pc = "idle" /\ run'.pc = "idle"
    /\ now' = now /\ config' = config

\* a step in which scan() asks its Cache object for the key
ScanGet ==
    /\ cache.made /\ run.pc = "running" /\ task.pc = "none"
    /\ raisedIn' = raisedIn
    /\ task'.pc = "executing" \/ run'.idx > run.idx

\* C30: with the cache disabled (Cache(enabled=False), or no cache object
\* under --no-cache) every get is a miss, set and delete return False, clear
\* and cleanup_expired return 0, no operation changes the stored entries, and
\* every scan executes its probe whatever the store contains.
C30_DisabledCacheIsInert ==
    [][ (Uncached /\ cache' = cache) =>
            /\ files' = files
            /\ (ApiCall \/ ScanGet) =>
                  /\ last'.op = "get" => last'.ret = None
                  /\ last'.op \in {"set", "delete"} => ~last'.ok
                  /\ last'.op \in {"clear", "cleanup_expired"} => last'.count = 0
            /\ served' = {}
            /\ (run.pc = "running" /\ task.pc = "none" /\ run'.idx > run.idx)
                  => raisedIn' # raisedIn
            /\ report'.made => DOMAIN report'.results \subseteq executed' ]_vars

\* a scan with a Cache(enabled=False) has executed its probe while a fresh
\* entry for its key lies in the directory
C30_Witness ==
    /\ cache.made /\ ~cache.enabled
    /\ run.pc = "done"
    /\ "http" \in executed
    /\ Readable(FileOf(files, cache_keys["http"]))
    /\ ~Expired(FileOf(files, cache_keys["http"]), now, config.ttl)

====
